---- MODULE Spec2Model ----
(***************************************************************************)
(* Least-squares Monte Carlo valuation of the option to sell a mine        *)
(* (real_options_v1.py), as a state machine: one action per statement      *)
(* group of the script, run top to bottom.                                 *)
(*                                                                         *)
(* Numbers.  The script computes in float64.  The model computes exactly:  *)
(* money is a rational <<n, d>> in lowest terms, and np.exp / np.log are   *)
(* the base-2 exponential and logarithm, so that a matrix cell is a signed *)
(* power of two or one of the float specials 0, nan, +inf, -inf.  The      *)
(* inputs are drawn from the values this arithmetic represents exactly.    *)
(* The rounding of float64 results is not modelled; its range (overflow to *)
(* inf, underflow to 0) is.                                                *)
(*                                                                         *)
(* The module-level constants of the script are the fields of cfg, chosen  *)
(* by the initial condition; rows and columns are numbered from 0 as in    *)
(* the script.                                                             *)
(***************************************************************************)
EXTENDS Integers, Sequences, FiniteSets

\* ---------------------------------------------------------------- bounds
\* Horizon and number of simulated paths of the model's runs (the script
\* sets T = 10 and n_sim = 1000).
MaxT == 3
MaxSim == 3
\* Number of binary digits of the generator's state: seeds 0 .. 2^SeedBits - 1.
SeedBits == 6

\* ------------------------------------------------------------- rationals
Abs(i) == IF i < 0 THEN -i ELSE i

RECURSIVE GCD(_, _)
GCD(a, b) == IF b = 0 THEN a ELSE GCD(b, a % b)

RECURSIVE Pow2(_)
Pow2(n) == IF n <= 0 THEN 1 ELSE 2 * Pow2(n - 1)

\* The rational n/d (d # 0) in lowest terms with a positive denominator.
Rat(n, d) ==
  LET g == GCD(Abs(n), Abs(d))
      s == IF d < 0 THEN -1 ELSE 1
  IN  <<s * (n \div g), s * (d \div g)>>

RInt(n) == <<n, 1>>
RZero == <<0, 1>>

\* q is such a pair.
IsRat(q) == q[2] > 0

\* The operations take their operands evaluated, as the script's do.
RAdd(a, b) ==
  IF IsRat(a) /\ IsRat(b)
    THEN LET g == GCD(a[2], b[2])
         IN  Rat(a[1] * (b[2] \div g) + b[1] * (a[2] \div g), (a[2] \div g) * b[2])
    ELSE RZero

RNeg(a) == <<-a[1], a[2]>>

RSub(a, b) == RAdd(a, RNeg(b))

RMul(a, b) ==
  IF IsRat(a) /\ IsRat(b)
    THEN LET g1 == GCD(Abs(a[1]), b[2])
             g2 == GCD(Abs(b[1]), a[2])
         IN  Rat((a[1] \div g1) * (b[1] \div g2), (a[2] \div g2) * (b[2] \div g1))
    ELSE RZero

\* a / b for b # 0.
RDiv(a, b) == RMul(a, Rat(b[2], b[1]))

RLe(a, b) == RSub(a, b)[1] <= 0

RLt(a, b) == RSub(a, b)[1] < 0

\* 2^e for an integer e.
RPow2(e) == IF e >= 0 THEN <<Pow2(e), 1>> ELSE <<1, Pow2(-e)>>

\* An array as the statement that assigns it leaves it: every entry computed.
Computed(v) == IF v = v THEN v ELSE v

\* Sum of f[i] over i in lo..hi (0 when the range is empty): ndarray.sum.
RECURSIVE RSum(_, _, _)
RSum(f, lo, hi) == IF lo > hi THEN RZero ELSE RAdd(f[lo], RSum(f, lo + 1, hi))

\* ------------------------------------------------------ float64 values
\* A matrix cell: +2^e or -2^e (e a rational exponent), or a float special.
Pos(e) == [k |-> "pos", e |-> e]
Neg(e) == [k |-> "neg", e |-> e]
VZero == [k |-> "zero", e |-> RZero]
VNaN == [k |-> "nan", e |-> RZero]
VPInf == [k |-> "pinf", e |-> RZero]
VNInf == [k |-> "ninf", e |-> RZero]

\* float64 holds 2^e for MinExp <= e <= MaxExp; below it a result underflows
\* to 0, above it overflows to inf.
MinExp == -1074
MaxExp == 1023

\* A result of magnitude 2^e and sign sgn, as float64 stores it.
Stored(sgn, e) ==
  IF RLt(e, RInt(MinExp)) THEN VZero
  ELSE IF RLt(RInt(MaxExp), e) THEN (IF sgn > 0 THEN VPInf ELSE VNInf)
  ELSE IF sgn > 0 THEN Pos(e) ELSE Neg(e)

VSign(v) == IF v.k \in {"pos", "pinf"} THEN 1 ELSE IF v.k \in {"neg", "ninf"} THEN -1 ELSE 0

\* a * b of two cells (IEEE 754: nan propagates, 0 * inf is nan).
VMul(a, b) ==
  IF a.k = "nan" \/ b.k = "nan" THEN VNaN
  ELSE IF a.k = "zero" \/ b.k = "zero"
    THEN (IF a.k \in {"pinf", "ninf"} \/ b.k \in {"pinf", "ninf"} THEN VNaN ELSE VZero)
  ELSE IF a.k \in {"pinf", "ninf"} \/ b.k \in {"pinf", "ninf"}
    THEN (IF VSign(a) * VSign(b) > 0 THEN VPInf ELSE VNInf)
  ELSE Stored(VSign(a) * VSign(b), RAdd(a.e, b.e))

\* v > 0 as Python evaluates it (False for nan).
VPositive(v) == v.k \in {"pos", "pinf"}

\* The exact value of a finite cell with an integer exponent.
ToRat(v) ==
  IF v.k = "zero" THEN RZero
  ELSE IF v.k = "pos" THEN RPow2(v.e[1])
  ELSE RNeg(RPow2(v.e[1]))

\* ----------------------------------------- log-space numbers (float64)
\* A finite rational, or nan, +inf, -inf.
Fin(q) == [k |-> "fin", q |-> q]
LNaN == [k |-> "nan", q |-> RZero]
LPInf == [k |-> "pinf", q |-> RZero]
LNInf == [k |-> "ninf", q |-> RZero]

LSign(a) ==
  IF a.k = "pinf" THEN 1 ELSE IF a.k = "ninf" THEN -1
  ELSE IF a.q[1] > 0 THEN 1 ELSE IF a.q[1] < 0 THEN -1 ELSE 0

LAdd(a, b) ==
  IF a.k = "nan" \/ b.k = "nan" THEN LNaN
  ELSE IF a.k = "fin" /\ b.k = "fin" THEN Fin(RAdd(a.q, b.q))
  ELSE IF a.k = "fin" THEN b
  ELSE IF b.k = "fin" THEN a
  ELSE IF a.k = b.k THEN a ELSE LNaN

LNegate(a) ==
  IF a.k = "fin" THEN Fin(RNeg(a.q))
  ELSE IF a.k = "pinf" THEN LNInf ELSE IF a.k = "ninf" THEN LPInf ELSE LNaN

LSub(a, b) == LAdd(a, LNegate(b))

LMul(a, b) ==
  IF a.k = "nan" \/ b.k = "nan" THEN LNaN
  ELSE IF a.k = "fin" /\ b.k = "fin" THEN Fin(RMul(a.q, b.q))
  ELSE IF LSign(a) * LSign(b) = 0 THEN LNaN
  ELSE IF LSign(a) * LSign(b) > 0 THEN LPInf ELSE LNInf

\* np.log: log(0) is -inf, the log of a negative number is nan.
VLog(v) ==
  IF v.k = "pos" THEN Fin(v.e)
  ELSE IF v.k = "zero" THEN LNInf
  ELSE IF v.k = "pinf" THEN LPInf
  ELSE LNaN

\* np.exp: always >= 0; exp(-inf) and an underflowing result are 0.
VExp(a) ==
  IF a.k = "fin" THEN Stored(1, a.q)
  ELSE IF a.k = "ninf" THEN VZero
  ELSE IF a.k = "pinf" THEN VPInf
  ELSE VNaN

\* -------------------------------------------------- the random generator
\* np.random.RandomState(seed): a deterministic generator.  The model's
\* generator is a linear congruential one on SeedBits bits; a standard-normal
\* deviate is read off the top bit of its state.
Modulus == Pow2(SeedBits)

Seeded(seed) == seed % Modulus

Advance(state) == (5 * state + 1) % Modulus

Deviate(state) == IF 2 * state >= Modulus THEN <<3, 2>> ELSE <<1, 2>>

\* rng.randn() broadcast: one deviate drawn and used for all n elements.
RandnShared(state, n) ==
  [z |-> [i \in 1 .. n |-> Deviate(Advance(state))], state |-> Advance(state)]

\* rng.randn(n): n deviates in the order they are generated, element i of the
\* result being the (i+1)-th draw of the call, and the generator's new state.
RECURSIVE Randn(_, _)
Randn(state, n) ==
  IF n = 0 THEN [z |-> <<>>, state |-> state]
  ELSE LET s1 == Advance(state)
           rest == Randn(s1, n - 1)
       IN  [z |-> <<Deviate(s1)>> \o rest.z, state |-> rest.state]

\* ------------------------------------------------------------ the state
VARIABLES
  cfg,        \* the script's constants (lines 54-79 and the seed of line 85)
  runs,       \* the executions of the script that are followed side by side
  junk,       \* per run: what np.empty's memory happens to hold
  pc,         \* the statement group about to run
  t,          \* the loop variable of line 90
  rng,        \* per run: the generator's state
  ndraws,     \* per run: the deviates drawn so far
  price, opex,
  rev_gross, roy, rev_net, btcf, tax, atcf,
  dis_fact, npv, npv_cont,
  X, cv_pred, max_val,
  enpv_w_opt, enpv_wo_opt, opt_val,
  out         \* per run: the lines printed

vars == <<cfg, runs, junk, pc, t, rng, ndraws, price, opex,
          rev_gross, roy, rev_net, btcf, tax, atcf, dis_fact, npv, npv_cont,
          X, cv_pred, max_val, enpv_w_opt, enpv_wo_opt, opt_val, out>>

\* A name the script has not assigned yet.
Unset == <<>>

Sims(c) == 0 .. c.n_sim - 1
Cols(c) == 0 .. c.T - 1

\* ndarray indexing: a negative index counts from the end.
PyIndex(i, n) == IF i < 0 THEN i + n ELSE i

\* ------------------------------------------------------------ the inputs
\* np.logspace(1, 0, T) of line 72: T quantities declining geometrically
\* to 1 (in the model's base 2: 2^(T-1), ..., 2, 1).
Logspace(T) == [i \in 0 .. T - 1 |-> RPow2(T - 1 - i)]

\* The constants of lines 54-79 at values the exact arithmetic represents:
\* r = 100 %, volatilities 2, full mean reversion to the long-run opex 1/2,
\* a tax rate of 1/4, CAPEX 8 depreciated over two periods.  roy_rate is the
\* script's 1/8.
BaseConfig ==
  [T |-> MaxT, n_sim |-> MaxSim, buyout |-> RInt(2), buy_year |-> 1,
   r |-> RInt(1), price_0 |-> Pos(RInt(2)), price_sigma |-> RInt(2),
   roy_rate |-> <<1, 8>>, opex_0 |-> Pos(RInt(0)), opex_k |-> RInt(1),
   opex_lr |-> Pos(RInt(-1)), opex_sigma |-> RInt(2),
   quant |-> Logspace(MaxT), capex |-> RInt(8), tax_rate |-> <<1, 4>>,
   depr_sch |-> <<(<<1, 2>>), (<<1, 4>>)>>, seed |-> 1]

Seeds == 0 .. Modulus - 1

\* The configurations of the valuation runs: every decision period 0 .. T,
\* a buyout of 0 or 2, every seed.
Configs ==
  {[BaseConfig EXCEPT !.buyout = b, !.buy_year = y, !.seed = sd] :
     b \in {RZero, RInt(2)}, y \in 0 .. MaxT, sd \in Seeds}

\* What the memory np.empty returns may hold.
JunkVals == {VNaN, Pos(RInt(3))}

\* np.c_[np.ones((n_sim, 1)) * v0, np.empty([n_sim, T - 1])] of lines 87-88:
\* column 0 is v0, the other columns are whatever the memory held.
InitialMatrix(c, v0, j) == [s \in Sims(c) |-> [col \in Cols(c) |-> IF col = 0 THEN v0 ELSE j]]

\* np.arange(1, T) of line 90 starts at 1.
LoopStart == 1

UnsetAll(rs) == [ru \in rs |-> Unset]

\* The state after lines 54-88: constants set, generator seeded, matrices
\* created, nothing else assigned.
Start(c, rs) ==
  /\ cfg = c
  /\ runs = rs
  /\ junk \in [rs -> JunkVals]
  /\ pc = IF LoopStart < c.T THEN "price" ELSE "cashflow"
  /\ t = LoopStart
  /\ rng = [ru \in rs |-> Seeded(c.seed)]
  /\ ndraws = [ru \in rs |-> 0]
  /\ price = [ru \in rs |-> InitialMatrix(c, c.price_0, junk[ru])]
  /\ opex = [ru \in rs |-> InitialMatrix(c, c.opex_0, junk[ru])]
  /\ rev_gross = UnsetAll(rs) /\ roy = UnsetAll(rs) /\ rev_net = UnsetAll(rs)
  /\ btcf = UnsetAll(rs) /\ tax = UnsetAll(rs) /\ atcf = UnsetAll(rs)
  /\ dis_fact = UnsetAll(rs) /\ npv = UnsetAll(rs) /\ npv_cont = UnsetAll(rs)
  /\ X = UnsetAll(rs) /\ cv_pred = UnsetAll(rs) /\ max_val = UnsetAll(rs)
  /\ enpv_w_opt = UnsetAll(rs) /\ enpv_wo_opt = UnsetAll(rs)
  /\ opt_val = UnsetAll(rs) /\ out = UnsetAll(rs)

Init == \E c \in Configs : Start(c, {1})

\* Two executions of the script with the same constants and seed, each with
\* its own memory.
InitTwin == \E c \in Configs : Start(c, {1, 2})

\* Finite opex parameters of either sign and of either size.
PathConfigs ==
  {[BaseConfig EXCEPT !.opex_0 = o, !.opex_lr = lr, !.opex_k = k, !.opex_sigma = sg,
                      !.seed = sd] :
     o \in {Pos(RInt(0)), Pos(RInt(3)), VZero, Neg(RInt(0))},
     lr \in {Pos(RInt(-1)), VZero, Neg(RInt(0))},
     k \in {RZero, <<1, 2>>, RInt(1)},
     sg \in {RInt(2), RInt(-4000)},
     sd \in Seeds}

InitPaths == \E c \in PathConfigs : Start(c, {1})

\* T of line 54.
ScriptT == 10

\* depr_sch of lines 78-79, each literal as the decimal fraction it writes.
DeprSch ==
  <<Rat(1429, 10000), Rat(2449, 10000), Rat(1749, 10000), Rat(1249, 10000),
    Rat(893, 10000), Rat(892, 10000), Rat(893, 10000), Rat(446, 10000)>>

\* The script's depreciation schedule, CAPEX (line 74, and its double) and tax
\* rate (line 76), over the horizons up to the script's that hold the schedule.
DeprConfigs ==
  {[BaseConfig EXCEPT !.T = h, !.quant = Logspace(h), !.depr_sch = DeprSch,
                      !.capex = cx, !.tax_rate = <<21, 100>>, !.seed = sd] :
     h \in Len(DeprSch) .. ScriptT, cx \in {RInt(1250), RInt(2500)}, sd \in Seeds}

InitDepr == \E c \in DeprConfigs : Start(c, {1})

\* ------------------------------------------------- the simulation loop
\* Line 91-92: prev * np.exp(-0.5*(price_sigma**2)*1 + price_sigma*z).
PriceCell(prev, z, c) ==
  VMul(prev,
       VExp(LAdd(LMul(LMul(Fin(<<-1, 2>>), LMul(Fin(c.price_sigma), Fin(c.price_sigma))),
                      Fin(RInt(1))),
                 LMul(Fin(c.price_sigma), Fin(z)))))

\* Lines 95-96: np.exp(np.log(prev) + opex_k*(np.log(opex_lr) - np.log(prev))*1
\* + opex_sigma*z).
OpexCell(prev, z, c) ==
  VExp(LAdd(LAdd(VLog(prev),
                 LMul(LMul(Fin(c.opex_k), LSub(VLog(c.opex_lr), VLog(prev))),
                      Fin(RInt(1)))),
            LMul(Fin(c.opex_sigma), Fin(z))))

\* Column t computed from column t itself (price[:, t] in the place of
\* price[:, t - 1]).
PriceColumnFromSame(m, tt, z, c) ==
  [s \in Sims(c) |->
     [m[s] EXCEPT ![PyIndex(tt, c.T)] = PriceCell(m[s][PyIndex(tt, c.T)], z[s + 1], c)]]

\* The update done in place: column t - 1 is scaled, then copied to column t.
PriceColumnInPlace(m, tt, z, c) ==
  [s \in Sims(c) |->
     [m[s] EXCEPT ![PyIndex(tt, c.T)] = PriceCell(m[s][PyIndex(tt - 1, c.T)], z[s + 1], c),
                  ![PyIndex(tt - 1, c.T)] = PriceCell(m[s][PyIndex(tt - 1, c.T)], z[s + 1], c)]]

\* price[:, t] = f(price[:, t - 1], z): column t of every row is assigned from
\* column t - 1 of the same row and the row's deviate; no other cell changes.
PriceColumn(m, tt, z, c) ==
  [s \in Sims(c) |->
     [m[s] EXCEPT ![PyIndex(tt, c.T)] = PriceCell(m[s][PyIndex(tt - 1, c.T)], z[s + 1], c)]]

\* Column t computed from column t itself (opex[:, t] in the place of
\* opex[:, t - 1]).
OpexColumnFromSame(m, tt, z, c) ==
  [s \in Sims(c) |->
     [m[s] EXCEPT ![PyIndex(tt, c.T)] = OpexCell(m[s][PyIndex(tt, c.T)], z[s + 1], c)]]

\* Columns 1 .. t recomputed in every iteration, each from the column before.
OpexColumnRewriting(m, tt, z, c) ==
  [s \in Sims(c) |->
     [col \in Cols(c) |->
        IF col >= 1 /\ col <= tt
          THEN OpexCell(m[s][col - 1], z[s + 1], c)
          ELSE m[s][col]]]

OpexColumn(m, tt, z, c) ==
  [s \in Sims(c) |->
     [m[s] EXCEPT ![PyIndex(tt, c.T)] = OpexCell(m[s][PyIndex(tt - 1, c.T)], z[s + 1], c)]]

Derived == <<rev_gross, roy, rev_net, btcf, tax, atcf, dis_fact, npv, npv_cont,
             X, cv_pred, max_val, enpv_w_opt, enpv_wo_opt, opt_val, out>>

\* Lines 91-92 for the current t: n_sim deviates are drawn, then column t of
\* price is assigned.
PriceStep ==
  /\ pc = "price"
  /\ LET d == [ru \in runs |-> Randn(rng[ru], cfg.n_sim)]
     IN  /\ price' = [ru \in runs |-> PriceColumn(price[ru], t, d[ru].z, cfg)]
         /\ rng' = [ru \in runs |-> d[ru].state]
  /\ ndraws' = [ru \in runs |-> ndraws[ru] + cfg.n_sim]
  /\ pc' = "opex"
  /\ UNCHANGED <<cfg, runs, junk, t, opex, Derived>>

\* Lines 95-96 for the current t, then the loop's next t (line 90).
OpexStep ==
  /\ pc = "opex"
  /\ LET d == [ru \in runs |-> Randn(rng[ru], cfg.n_sim)]
     IN  /\ opex' = [ru \in runs |-> OpexColumn(opex[ru], t, d[ru].z, cfg)]
         /\ rng' = [ru \in runs |-> d[ru].state]
  /\ ndraws' = [ru \in runs |-> ndraws[ru] + cfg.n_sim]
  /\ t' = t + 1
  /\ pc' = IF t + 1 < cfg.T THEN "price" ELSE "cashflow"
  /\ UNCHANGED <<cfg, runs, junk, price, Derived>>

Simulate == PriceStep \/ OpexStep

\* ---------------------------------------------------- cash-flow engine
\* A cell that holds a finite number with an integer exponent: the cells the
\* exact arithmetic of the stages below reads.
Exact(v) == v.k \in {"pos", "neg", "zero"} /\ v.e[2] = 1 /\ Abs(v.e[1]) <= 24

\* Line 99: price * quant, quant broadcast along the rows.
RevGross(c, pr) ==
  Computed(
    [s \in Sims(c) |-> [i \in Cols(c) |-> RMul(ToRat(pr[s][i]), c.quant[i])]])

\* Line 100: rev_gross * roy_rate.
Royalty(c, rg) ==
  Computed(
    [s \in Sims(c) |-> [i \in Cols(c) |-> RMul(rg[s][i], c.roy_rate)]])

\* Line 101: rev_gross - roy.
RevNet(c, rg, ry) ==
  Computed(
    [s \in Sims(c) |-> [i \in Cols(c) |-> RSub(rg[s][i], ry[s][i])]])

\* Line 103: rev_net - opex.
Btcf(c, rn, ox) ==
  Computed(
    [s \in Sims(c) |-> [i \in Cols(c) |-> RSub(rn[s][i], ToRat(ox[s][i]))]])

\* np.resize(depr_sch, T): the schedule repeated up to T entries.
DeprFractionsRepeated(c) == [i \in Cols(c) |-> c.depr_sch[(i % Len(c.depr_sch)) + 1]]

\* np.r_[depr_sch, np.zeros((T - len(depr_sch)))] of line 105: the schedule,
\* then zeros up to T entries.
DeprFractions(c) == [i \in Cols(c) |-> IF i < Len(c.depr_sch) THEN c.depr_sch[i + 1] ELSE RZero]

\* Line 105: tax_rate * (btcf - capex * fractions), the fractions broadcast
\* along the rows.
Tax(c, bt) ==
  Computed(
    [s \in Sims(c) |->
       [i \in Cols(c) |->
          RMul(c.tax_rate, RSub(bt[s][i], RMul(c.capex, DeprFractions(c)[i])))]])

\* Line 107: btcf - tax.
Atcf(c, bt, tx) ==
  Computed(
    [s \in Sims(c) |-> [i \in Cols(c) |-> RSub(bt[s][i], tx[s][i])]])

\* Lines 99-107.  np.zeros of a negative length raises ValueError, which ends
\* the run.  Only runs whose simulated cells are finite are followed further.
CashFlow ==
  /\ pc = "cashflow"
  /\ {x \in runs \X Sims(cfg) \X Cols(cfg) :
        ~(Exact(price[x[1]][x[2]][x[3]]) /\ Exact(opex[x[1]][x[2]][x[3]]))} = {}
  /\ rev_gross' = [ru \in runs |-> RevGross(cfg, price[ru])]
  /\ roy' = [ru \in runs |-> Royalty(cfg, rev_gross'[ru])]
  /\ rev_net' = [ru \in runs |-> RevNet(cfg, rev_gross'[ru], roy'[ru])]
  /\ btcf' = [ru \in runs |-> Btcf(cfg, rev_net'[ru], opex[ru])]
  /\ IF Len(cfg.depr_sch) > cfg.T
       THEN pc' = "aborted" /\ UNCHANGED <<tax, atcf>>
       ELSE /\ tax' = [ru \in runs |-> Tax(cfg, btcf'[ru])]
            /\ atcf' = [ru \in runs |-> Atcf(cfg, btcf'[ru], tax'[ru])]
            /\ pc' = "discount"
  /\ UNCHANGED <<cfg, runs, junk, t, rng, ndraws, price, opex, dis_fact, npv, npv_cont,
                 X, cv_pred, max_val, enpv_w_opt, enpv_wo_opt, opt_val, out>>

\* ----------------------------------------------------- valuation engine
RECURSIVE RPow(_, _)
RPow(a, n) == IF n = 0 THEN RInt(1) ELSE RMul(a, RPow(a, n - 1))

\* Line 114: [(1 + r)**(-i - 1) for i in range(T)].
DisFact(c) ==
  Computed([i \in Cols(c) |-> RDiv(RInt(1), RPow(RAdd(RInt(1), c.r), i + 1))])

\* Where a slice bound i falls in a sequence of length n.
SliceBound(i, n) ==
  IF i < 0 THEN (IF i + n < 0 THEN 0 ELSE i + n) ELSE IF i > n THEN n ELSE i

\* (a[:, lo:hi] * df[lo:hi]).sum(axis=1): per row, the discounted sum over the
\* columns lo .. hi - 1.
DiscountedSum(c, a, df, lo, hi) ==
  Computed(
    [s \in Sims(c) |-> RSum([i \in Cols(c) |-> RMul(a[s][i], df[i])], lo, hi - 1)])

\* Line 117: (atcf * dis_fact).sum(axis=1).
Npv(c, a, df) == DiscountedSum(c, a, df, 0, c.T)

\* The continuation taken from the period after the decision period on
\* (buy_year + 1 in the place of buy_year).
NpvContAfterDecision(c, a, df) ==
  DiscountedSum(c, a, df, SliceBound(c.buy_year + 1, c.T), c.T)

\* Line 119: (atcf[:, buy_year:] * dis_fact[buy_year:]).sum(axis=1).
NpvCont(c, a, df) == DiscountedSum(c, a, df, SliceBound(c.buy_year, c.T), c.T)

\* Line 138: (atcf[:, :buy_year] * dis_fact[:buy_year]).sum(axis=1).
NpvBefore(c, a, df) == DiscountedSum(c, a, df, 0, SliceBound(c.buy_year, c.T))

\* Lines 114-119.
Discount ==
  /\ pc = "discount"
  /\ dis_fact' = [ru \in runs |-> DisFact(cfg)]
  /\ npv' = [ru \in runs |-> Npv(cfg, atcf[ru], dis_fact'[ru])]
  /\ npv_cont' = [ru \in runs |-> NpvCont(cfg, atcf[ru], dis_fact'[ru])]
  /\ pc' = "regressors"
  /\ UNCHANGED <<cfg, runs, junk, t, rng, ndraws, price, opex, rev_gross, roy, rev_net,
                 btcf, tax, atcf, X, cv_pred, max_val, enpv_w_opt, enpv_wo_opt,
                 opt_val, out>>

\* Lines 122-124: np.c_[price[:, buy_year], opex[:, buy_year]].
Regressors(c, pr, ox) ==
  Computed(
    [s \in Sims(c) |-> <<ToRat(pr[s][PyIndex(c.buy_year, c.T)]),
                         ToRat(ox[s][PyIndex(c.buy_year, c.T)])>>])

\* Lines 122-124.  An index outside -T .. T - 1 raises IndexError at line 122,
\* which ends the run.
BuildRegressors ==
  /\ pc = "regressors"
  /\ IF cfg.buy_year >= cfg.T \/ cfg.buy_year < -cfg.T
       THEN pc' = "aborted" /\ UNCHANGED X
       ELSE /\ X' = [ru \in runs |-> Regressors(cfg, price[ru], opex[ru])]
            /\ pc' = "fit"
  /\ UNCHANGED <<cfg, runs, junk, t, rng, ndraws, price, opex, rev_gross, roy, rev_net,
                 btcf, tax, atcf, dis_fact, npv, npv_cont, cv_pred, max_val,
                 enpv_w_opt, enpv_wo_opt, opt_val, out>>

\* ndarray.mean(axis=0) of a vector over the rows.
Mean(c, v) == RDiv(RSum(v, 0, c.n_sim - 1), RInt(c.n_sim))

\* fit_intercept = False: a least-squares fit through the origin, X and y not
\* centred and the intercept 0.
FitThroughOrigin(c, Xm, y) ==
  LET Dot(u, v) == RSum([s \in Sims(c) |-> RMul(u[s], v[s])], 0, c.n_sim - 1)
      x1 == [s \in Sims(c) |-> Xm[s][1]]
      x2 == [s \in Sims(c) |-> Xm[s][2]]
      a == Dot(x1, x1)
      b == Dot(x1, x2)
      d == Dot(x2, x2)
      p == Dot(x1, y)
      q == Dot(x2, y)
      det == RSub(RMul(a, d), RMul(b, b))
      coef == IF det # RZero
                THEN <<RDiv(RSub(RMul(d, p), RMul(b, q)), det),
                       RDiv(RSub(RMul(a, q), RMul(b, p)), det)>>
              ELSE IF RAdd(a, d) # RZero
                THEN <<RDiv(p, RAdd(a, d)), RDiv(q, RAdd(a, d))>>
              ELSE <<RZero, RZero>>
  IN  [coef |-> coef, intercept |-> RZero]

\* LinearRegression().fit(Xm, y), line 130: ordinary least squares of y on the
\* two columns of Xm with an intercept (fit_intercept is True by default).  X
\* and y are centred, the coefficients are the least-squares solution of least
\* norm of the centred system (scipy.linalg.lstsq), and the intercept is
\* mean(y) - mean(X) . coef.
Fit(c, Xm, y) ==
  LET m1 == Mean(c, [s \in Sims(c) |-> Xm[s][1]])
      m2 == Mean(c, [s \in Sims(c) |-> Xm[s][2]])
      my == Mean(c, y)
      c1 == Computed([s \in Sims(c) |-> RSub(Xm[s][1], m1)])
      c2 == Computed([s \in Sims(c) |-> RSub(Xm[s][2], m2)])
      cy == Computed([s \in Sims(c) |-> RSub(y[s], my)])
      Dot(u, v) == RSum([s \in Sims(c) |-> RMul(u[s], v[s])], 0, c.n_sim - 1)
      a == Dot(c1, c1)
      b == Dot(c1, c2)
      d == Dot(c2, c2)
      p == Dot(c1, cy)
      q == Dot(c2, cy)
      det == RSub(RMul(a, d), RMul(b, b))
      coef == IF det # RZero
                THEN <<RDiv(RSub(RMul(d, p), RMul(b, q)), det),
                       RDiv(RSub(RMul(a, q), RMul(b, p)), det)>>
              ELSE IF RAdd(a, d) # RZero
                THEN <<RDiv(p, RAdd(a, d)), RDiv(q, RAdd(a, d))>>
              ELSE <<RZero, RZero>>
  IN  [coef |-> coef,
       intercept |-> RSub(my, RAdd(RMul(m1, coef[1]), RMul(m2, coef[2])))]

\* regr.predict(Xm), line 132: Xm . coef + intercept.
Predict(c, model, Xm) ==
  Computed(
    [s \in Sims(c) |->
       RAdd(RAdd(RMul(Xm[s][1], model.coef[1]), RMul(Xm[s][2], model.coef[2])),
            model.intercept)])

\* Lines 127-132.
FitPredict ==
  /\ pc = "fit"
  /\ cv_pred' = [ru \in runs |-> Predict(cfg, Fit(cfg, X[ru], npv_cont[ru]), X[ru])]
  /\ pc' = "exercise"
  /\ UNCHANGED <<cfg, runs, junk, t, rng, ndraws, price, opex, rev_gross, roy, rev_net,
                 btcf, tax, atcf, dis_fact, npv, npv_cont, X, max_val,
                 enpv_w_opt, enpv_wo_opt, opt_val, out>>

\* np.minimum in the place of np.maximum.
MaximumAsMinimum(c, cv, b) == [s \in Sims(c) |-> IF RLt(cv[s], b) THEN cv[s] ELSE b]

\* np.maximum(cv, b) of line 136, b broadcast.
Maximum(c, cv, b) == Computed([s \in Sims(c) |-> IF RLt(cv[s], b) THEN b ELSE cv[s]])

\* Lines 138-139.
EnpvWithOption(c, a, df, mv) ==
  RSub(RAdd(Mean(c, NpvBefore(c, a, df)), Mean(c, mv)), c.capex)

\* Line 141 without "- capex".
EnpvWithoutOptionGross(c, nv) == Mean(c, nv)

\* Line 141.
EnpvWithoutOption(c, nv) == RSub(Mean(c, nv), c.capex)

\* Lines 136-142.
Exercise ==
  /\ pc = "exercise"
  /\ max_val' = [ru \in runs |-> Maximum(cfg, cv_pred[ru], cfg.buyout)]
  /\ enpv_w_opt' = [ru \in runs |->
                      EnpvWithOption(cfg, atcf[ru], dis_fact[ru], max_val'[ru])]
  /\ enpv_wo_opt' = [ru \in runs |-> EnpvWithoutOption(cfg, npv[ru])]
  /\ opt_val' = [ru \in runs |-> RSub(enpv_w_opt'[ru], enpv_wo_opt'[ru])]
  /\ pc' = "print"
  /\ UNCHANGED <<cfg, runs, junk, t, rng, ndraws, price, opex, rev_gross, roy, rev_net,
                 btcf, tax, atcf, dis_fact, npv, npv_cont, X, cv_pred, out>>

\* Lines 105-107 from btcf on: the after-tax cash flow under the constants k.
AfterTax(k, before) == Atcf(k, before, Tax(k, before))

\* Lines 114-142 as a function: the option value that after-tax cash flows
\* flows and regressors regs give under the constants k.
OptionValue(k, flows, regs) ==
  LET factors == DisFact(k)
      realized == NpvCont(k, flows, factors)
      predicted == Predict(k, Fit(k, regs, realized), regs)
      taken == Maximum(k, predicted, k.buyout)
  IN  RSub(EnpvWithOption(k, flows, factors, taken),
           EnpvWithoutOption(k, Npv(k, flows, factors)))

\* "%.1f" % q: the sign and the number of tenths of q rounded to one decimal,
\* a tie going to the even digit; a negative q that rounds to zero still
\* prints its sign ("-0.0").
Format1(q) ==
  LET n == 10 * Abs(q[1])
      fl == n \div q[2]
      rem == n - fl * q[2]
      tenths == IF 2 * rem > q[2] THEN fl + 1
                ELSE IF 2 * rem < q[2] THEN fl
                ELSE IF fl % 2 = 0 THEN fl ELSE fl + 1
  IN  <<IF q[1] < 0 THEN "-" ELSE "", tenths>>

\* Lines 144-146: the three lines printed, the last with buy_year.
Report ==
  /\ pc = "print"
  /\ out' = [ru \in runs |->
               <<Format1(enpv_wo_opt[ru]), Format1(enpv_w_opt[ru]),
                 <<cfg.buy_year>> \o Format1(opt_val[ru])>>]
  /\ pc' = "done"
  /\ UNCHANGED <<cfg, runs, junk, t, rng, ndraws, price, opex, rev_gross, roy, rev_net,
                 btcf, tax, atcf, dis_fact, npv, npv_cont, X, cv_pred, max_val,
                 enpv_w_opt, enpv_wo_opt, opt_val>>

Value == CashFlow \/ Discount \/ BuildRegressors \/ FitPredict \/ Exercise \/ Report

Next == Simulate \/ Value

Spec == Init /\ [][Next]_vars

\* Two executions side by side.
SpecTwin == InitTwin /\ [][Next]_vars

\* The simulation loop alone, over the opex parameters of PathConfigs.
SpecPaths == InitPaths /\ [][Simulate]_vars

\* The script up to the after-tax cash flow, with its depreciation schedule.
NextDepr == Simulate \/ CashFlow

SpecDepr == InitDepr /\ [][NextDepr]_vars

\* ================================================================ claims
\* The exercise rule and the aggregates have been computed (lines 136-142).
Valued == pc \in {"print", "done"}

\* The regression has been fitted (line 132).
Fitted == pc \in {"exercise", "print", "done"}

SumSims(f) == RSum(f, 0, cfg.n_sim - 1)

\* Row s's discounted after-tax cash flow of the periods lo .. hi, read off the
\* state.
Discounted(ru, s, lo, hi) ==
  RSum([i \in Cols(cfg) |-> RMul(atcf[ru][s][i], dis_fact[ru][i])], lo, hi)

\* What the realized continuation value leaves unexplained.
Residual(ru, s) == RSub(npv_cont[ru][s], cv_pred[ru][s])

\* The residuals sum to zero and are orthogonal to both regressors.
NormalEquations(ru) ==
  /\ SumSims([s \in Sims(cfg) |-> Residual(ru, s)]) = RZero
  /\ SumSims([s \in Sims(cfg) |-> RMul(Residual(ru, s), X[ru][s][1])]) = RZero
  /\ SumSims([s \in Sims(cfg) |-> RMul(Residual(ru, s), X[ru][s][2])]) = RZero

\* Twice the signed area of the triangle of the regressor points of a, b, c.
Area(ru, a, b, c) ==
  RSub(RMul(RSub(X[ru][b][1], X[ru][a][1]), RSub(X[ru][c][2], X[ru][a][2])),
       RMul(RSub(X[ru][c][1], X[ru][a][1]), RSub(X[ru][b][2], X[ru][a][2])))

\* cv_pred is an affine function of the regressors: equal regressors give
\* equal predictions, predictions over collinear points are collinear, and
\* any fourth prediction lies in the plane through three others.
AffineInRegressors(ru) ==
  /\ \A a, b \in Sims(cfg) : X[ru][a] = X[ru][b] => cv_pred[ru][a] = cv_pred[ru][b]
  /\ \A a, b, c \in Sims(cfg) : \A j \in {1, 2} :
       Area(ru, a, b, c) = RZero =>
         RMul(RSub(X[ru][b][j], X[ru][a][j]), RSub(cv_pred[ru][c], cv_pred[ru][a]))
           = RMul(RSub(X[ru][c][j], X[ru][a][j]), RSub(cv_pred[ru][b], cv_pred[ru][a]))
  /\ \A a, b, c, d \in Sims(cfg) :
       RAdd(RSub(RMul(cv_pred[ru][a], Area(ru, b, c, d)),
                 RMul(cv_pred[ru][b], Area(ru, a, c, d))),
            RSub(RMul(cv_pred[ru][c], Area(ru, a, b, d)),
                 RMul(cv_pred[ru][d], Area(ru, a, b, c)))) = RZero

\* C1: once the exercise rule has run, for every simulation the value taken at
\* the decision date is the larger of the buyout and the prediction (it is at
\* least each of them and equal to one of them), the prediction being the
\* least-squares fitted value of the regression of the realized continuation
\* values on price and opex at the decision period (affine in the regressors,
\* residuals satisfying the normal equations), and the expected NPV with the
\* option is the mean pre-decision discounted cash flow plus the mean of these
\* values minus CAPEX.
C1_ExerciseRule ==
  Valued =>
    \A ru \in runs :
      /\ NormalEquations(ru)
      /\ AffineInRegressors(ru)
      /\ \A s \in Sims(cfg) :
           /\ RLe(cfg.buyout, max_val[ru][s])
           /\ RLe(cv_pred[ru][s], max_val[ru][s])
           /\ max_val[ru][s] \in {cv_pred[ru][s], cfg.buyout}
      /\ RMul(RInt(cfg.n_sim), RAdd(enpv_w_opt[ru], cfg.capex))
           = RAdd(SumSims([s \in Sims(cfg) |-> Discounted(ru, s, 0, cfg.buy_year - 1)]),
                  SumSims(max_val[ru]))

\* The rule has run on a sample in which one simulation keeps a prediction
\* above the buyout that differs from its realized continuation value, and
\* another is floored at the buyout.
C1_Witness ==
  /\ pc = "done"
  /\ \E s \in Sims(cfg) :
       /\ cv_pred[1][s] # npv_cont[1][s]
       /\ RLt(cfg.buyout, cv_pred[1][s])
       /\ max_val[1][s] = cv_pred[1][s]
  /\ \E s \in Sims(cfg) : RLt(cv_pred[1][s], cfg.buyout) /\ max_val[1][s] = cfg.buyout

\* C2: with a buyout of 0 and no negative prediction, the expected NPV with
\* the option equals the expected NPV without it and the option value is 0.
C2_ZeroBuyout ==
  Valued =>
    \A ru \in runs :
      (cfg.buyout = RZero /\ \A s \in Sims(cfg) : RLe(RZero, cv_pred[ru][s]))
        => enpv_w_opt[ru] = enpv_wo_opt[ru] /\ opt_val[ru] = RZero

\* A run with buyout 0 whose predictions are all >= 0 and not all equal to the
\* realized continuation values has been valued.
C2_Witness ==
  /\ pc = "done"
  /\ cfg.buyout = RZero
  /\ \A s \in Sims(cfg) : RLe(RZero, cv_pred[1][s])
  /\ \E s \in Sims(cfg) : cv_pred[1][s] # npv_cont[1][s]
  /\ enpv_w_opt[1] = enpv_wo_opt[1]

\* The discounting, the split at buy_year and the regressors, as far as the
\* run has computed them.
SplitAtDecision(ru) ==
  /\ \A i \in Cols(cfg) :
       RMul(dis_fact[ru][i], RPow(RAdd(RInt(1), cfg.r), i + 1)) = RInt(1)
  /\ \A s \in Sims(cfg) :
       /\ npv[ru][s] = Discounted(ru, s, 0, cfg.T - 1)
       /\ npv_cont[ru][s] = Discounted(ru, s, cfg.buy_year, cfg.T - 1)
       /\ npv[ru][s] = RAdd(Discounted(ru, s, 0, cfg.buy_year - 1), npv_cont[ru][s])
       /\ X[ru][s] = <<ToRat(price[ru][s][cfg.buy_year]), ToRat(opex[ru][s][cfg.buy_year])>>
  /\ Valued =>
       RAdd(RMul(RInt(cfg.n_sim), RAdd(enpv_w_opt[ru], cfg.capex)), SumSims(npv_cont[ru]))
         = RAdd(SumSims(npv[ru]), SumSims(max_val[ru]))

\* C9 (amended): for every decision period buy_year in 0 .. T - 1 the run does
\* not abort, and for every simulation the full-horizon NPV is the discounted
\* sum of the periods before buy_year plus the continuation value of the
\* periods buy_year .. T - 1, every period i discounted by (1 + r)^-(i + 1) in
\* both; the pre-decision part inside the expected NPV with option is that
\* complement, and the regressors are price and opex of period buy_year.
C9_Decomposition ==
  cfg.buy_year \in 0 .. cfg.T - 1 =>
    /\ pc # "aborted"
    /\ pc \in {"fit", "exercise", "print", "done"} => \A ru \in runs : SplitAtDecision(ru)

\* A finished run whose decision period leaves periods on both sides, with a
\* simulation whose two parts are both non-zero.
C9_Witness ==
  /\ pc = "done"
  /\ cfg.buy_year \in 1 .. cfg.T - 1
  /\ \E s \in Sims(cfg) :
       /\ Discounted(1, s, 0, cfg.buy_year - 1) # RZero
       /\ npv_cont[1][s] # RZero
       /\ npv[1][s] # npv_cont[1][s]

\* C9 as stated: the same for every buy_year in 0 .. T.
C9_AsStated ==
  cfg.buy_year \in 0 .. cfg.T =>
    /\ pc # "aborted"
    /\ pc \in {"fit", "exercise", "print", "done"} => \A ru \in runs : SplitAtDecision(ru)

\* No depreciation is deducted in a period the continuation value includes.
NoShieldAfterDecision ==
  \/ cfg.tax_rate = RZero
  \/ cfg.capex = RZero
  \/ \A i \in Cols(cfg) : i >= cfg.buy_year => DeprFractions(cfg)[i] = RZero

\* Other CAPEX figures the run could have been given.
OtherCapex == {RZero, RInt(8), RInt(24)}

\* The after-tax cash flows of run ru with every pre-decision entry moved by d.
PreDecisionMoved(ru, d) ==
  [s \in Sims(cfg) |->
     [i \in Cols(cfg) |-> IF i < cfg.buy_year THEN RAdd(atcf[ru][s][i], d) ELSE atcf[ru][s][i]]]

\* The option value of the run is the mean floored prediction minus the mean
\* realized continuation value, is >= 0, is 0 exactly when no prediction is
\* below the buyout, and is the same for other pre-decision cash flows.
OptionValueFacts(ru) ==
  /\ RMul(RInt(cfg.n_sim), opt_val[ru]) = RSub(SumSims(max_val[ru]), SumSims(npv_cont[ru]))
  /\ RLe(RZero, opt_val[ru])
  /\ opt_val[ru] = RZero <=> \A s \in Sims(cfg) : RLe(cfg.buyout, cv_pred[ru][s])
  /\ \A d \in {RInt(1), RInt(-3)} :
       OptionValue(cfg, PreDecisionMoved(ru, d), X[ru]) = opt_val[ru]

\* The option value of the run had CAPEX been k.
WithCapex(ru, amount) ==
  OptionValue([cfg EXCEPT !.capex = amount],
              AfterTax([cfg EXCEPT !.capex = amount], btcf[ru]), X[ru])

RECURSIVE AdvanceBy(_, _)
AdvanceBy(state, n) ==
  IF state < 0 \/ n = 0 THEN state
  ELSE IF n = 1 THEN Advance(state)
  ELSE AdvanceBy(AdvanceBy(state, n \div 2), n - (n \div 2))

\* The j-th deviate (j = 1, 2, ...) of the generator seeded with seed.
DrawAt(seed, j) == Deviate(AdvanceBy(Seeded(seed), j))

\* The deviates a whole run takes from the generator, in the order drawn.
DrawSequence == [j \in 1 .. 2 * cfg.n_sim * (cfg.T - 1) |-> DrawAt(cfg.seed, j)]

\* Period-major numbering of the draws: period col's n_sim price draws, then
\* its n_sim opex draws, rows in increasing order.
PriceDraw(s, col) == 2 * cfg.n_sim * (col - 1) + s + 1
OpexDraw(s, col) == 2 * cfg.n_sim * (col - 1) + cfg.n_sim + s + 1

\* The columns the script has assigned so far.
PriceAssigned(col) == col = 0 \/ col < t \/ (col = t /\ pc = "opex")
OpexAssigned(col) == col = 0 \/ col < t

InLoop == pc \in {"price", "opex"}

\* C3: the draws are taken from the one generator in period-major order.  At
\* every point the number of draws taken is 2 * n_sim * (t - 1), plus n_sim
\* once period t's price draws are taken, and the generator has advanced by
\* exactly that many; cell (s, col) of price is computed from draw number
\* 2 * n_sim * (col - 1) + s + 1 and cell (s, col) of opex from draw number
\* 2 * n_sim * (col - 1) + n_sim + s + 1; these numbers are distinct and make
\* up 1 .. 2 * n_sim * (T - 1); after the loop exactly 2 * n_sim * (T - 1)
\* draws have been taken and no more are.
C3_DrawOrder ==
  LET draws == DrawSequence
  IN  /\ draws \in [1 .. 2 * cfg.n_sim * (cfg.T - 1) -> {<<1, 2>>, <<3, 2>>}]
      /\ \A ru \in runs :
           /\ ndraws[ru] = 2 * cfg.n_sim * (t - 1) + (IF pc = "opex" THEN cfg.n_sim ELSE 0)
           /\ rng[ru] = AdvanceBy(Seeded(cfg.seed), ndraws[ru])
           /\ ~InLoop => ndraws[ru] = 2 * cfg.n_sim * (cfg.T - 1)
           /\ \A s \in Sims(cfg), col \in 1 .. cfg.T - 1 :
                /\ PriceAssigned(col) =>
                     /\ PriceDraw(s, col) <= ndraws[ru]
                     /\ price[ru][s][col]
                          = PriceCell(price[ru][s][col - 1], draws[PriceDraw(s, col)], cfg)
                /\ OpexAssigned(col) =>
                     /\ OpexDraw(s, col) <= ndraws[ru]
                     /\ opex[ru][s][col]
                          = OpexCell(opex[ru][s][col - 1], draws[OpexDraw(s, col)], cfg)
      /\ LET cells == Sims(cfg) \X (1 .. cfg.T - 1)
             used == {PriceDraw(x[1], x[2]) : x \in cells}
                       \cup {OpexDraw(x[1], x[2]) : x \in cells}
         IN  /\ used = 1 .. 2 * cfg.n_sim * (cfg.T - 1)
             /\ Cardinality(used) = 2 * Cardinality(cells)

\* A finished run in which two rows of one period and two periods of one row
\* received different deviates, for price and for opex.
C3_Witness ==
  /\ pc = "done"
  /\ \E s1, s2 \in Sims(cfg) : \E col \in 1 .. cfg.T - 1 :
       /\ DrawAt(cfg.seed, PriceDraw(s1, col)) # DrawAt(cfg.seed, PriceDraw(s2, col))
       /\ DrawAt(cfg.seed, PriceDraw(s1, col)) # DrawAt(cfg.seed, OpexDraw(s1, col))
  /\ \E s \in Sims(cfg) :
       DrawAt(cfg.seed, OpexDraw(s, 1)) # DrawAt(cfg.seed, OpexDraw(s, 2))

\* ---------------------------------------------------------- determinism
\* What the script has assigned of price and opex is the same in both
\* executions.
SameCells ==
  \A s \in Sims(cfg), col \in Cols(cfg) :
    /\ PriceAssigned(col) => price[1][s][col] = price[2][s][col]
    /\ OpexAssigned(col) => opex[1][s][col] = opex[2][s][col]

\* C4: two executions with the same constants and the same seed agree, at
\* every step, on the generator, on the number of draws, on every cell of
\* price and opex assigned so far, on every derived array and scalar, and on
\* the three lines printed.
C4_Determinism ==
  runs = {1, 2} =>
    /\ rng[1] = rng[2] /\ ndraws[1] = ndraws[2]
    /\ SameCells
    /\ rev_gross[1] = rev_gross[2] /\ roy[1] = roy[2] /\ rev_net[1] = rev_net[2]
    /\ btcf[1] = btcf[2] /\ tax[1] = tax[2] /\ atcf[1] = atcf[2]
    /\ dis_fact[1] = dis_fact[2] /\ npv[1] = npv[2] /\ npv_cont[1] = npv_cont[2]
    /\ X[1] = X[2] /\ cv_pred[1] = cv_pred[2] /\ max_val[1] = max_val[2]
    /\ enpv_w_opt[1] = enpv_w_opt[2] /\ enpv_wo_opt[1] = enpv_wo_opt[2]
    /\ opt_val[1] = opt_val[2]
    /\ out[1] = out[2]

\* Two executions that started on different memory have both printed, a
\* non-zero option value among the output.
C4_Witness ==
  /\ runs = {1, 2}
  /\ pc = "done"
  /\ junk[1] # junk[2]
  /\ out[1] # Unset /\ out[2] = out[1]
  /\ opt_val[1] # RZero

\* --------------------------------------------------------- first column
\* C5: in every state, for every simulation, column 0 of price is price_0 and
\* column 0 of opex is opex_0.
C5_FirstColumn ==
  \A ru \in runs, s \in Sims(cfg) :
    price[ru][s][0] = cfg.price_0 /\ opex[ru][s][0] = cfg.opex_0

\* A finished run whose later columns moved away from the initial values.
C5_Witness ==
  /\ pc = "done"
  /\ \E s \in Sims(cfg) : price[1][s][1] # cfg.price_0 /\ opex[1][s][1] # cfg.opex_0
  /\ \A s \in Sims(cfg) : price[1][s][0] = cfg.price_0 /\ opex[1][s][0] = cfg.opex_0

\* ------------------------------------------------------- opex positivity
RAbs(q) == <<Abs(q[1]), q[2]>>
RMax(a, b) == IF RLt(a, b) THEN b ELSE a

\* The largest magnitude of a deviate of the generator.
MaxDeviate == <<3, 2>>

\* Positive opex_0 and opex_lr, a reversion speed in 0 .. 1 and a log-opex
\* that cannot leave float64's exponent range in T - 1 steps.
OpexInputsInRange(c) ==
  /\ c.opex_0.k = "pos" /\ c.opex_lr.k = "pos"
  /\ RLe(RZero, c.opex_k) /\ RLe(c.opex_k, RInt(1))
  /\ RLe(RAdd(RMax(RAbs(c.opex_0.e), RAbs(c.opex_lr.e)),
              RMul(RInt(c.T - 1), RMul(RAbs(c.opex_sigma), MaxDeviate))),
         RInt(MaxExp))

\* C6 (amended): when opex_0 and opex_lr are positive, opex_k is in 0 .. 1 and
\* the inputs keep log-opex inside float64's exponent range, every entry of
\* opex assigned so far is a finite, strictly positive number.
C6_OpexPositive ==
  OpexInputsInRange(cfg) =>
    \A ru \in runs, s \in Sims(cfg), col \in Cols(cfg) :
      OpexAssigned(col) => opex[ru][s][col].k = "pos"

\* The loop has finished on inputs in range with partial mean reversion, and
\* a row's opex differs from period to period.
C6_Witness ==
  /\ pc = "cashflow"
  /\ OpexInputsInRange(cfg)
  /\ cfg.opex_k = <<1, 2>>
  /\ \E s \in Sims(cfg) :
       /\ opex[1][s][1] # opex[1][s][0]
       /\ opex[1][s][2] # opex[1][s][1]
       /\ \A col \in Cols(cfg) : VPositive(opex[1][s][col])

\* C6 as stated: for any finite inputs every entry of the opex matrix the loop
\* leaves is strictly positive.
C6_AsStated ==
  pc = "cashflow" =>
    \A ru \in runs, s \in Sims(cfg), col \in Cols(cfg) : VPositive(opex[ru][s][col])

\* ---------------------------------------------------------- depreciation
\* The depreciation line 105 deducts from row s's taxable income of period i.
Deducted(ru, s, i) == RSub(btcf[ru][s][i], RDiv(tax[ru][s][i], cfg.tax_rate))

TotalDeducted(ru, s) == RSum([i \in Cols(cfg) |-> Deducted(ru, s, i)], 0, cfg.T - 1)

ScheduleSum == RSum(cfg.depr_sch, 1, Len(cfg.depr_sch))

\* Once the cash flows are computed: the fractions sum to total, at most 1;
\* period by period the depreciation deducted is CAPEX times the schedule
\* fraction, 0 beyond the schedule; in total it is CAPEX times total, and at
\* most CAPEX.
DepreciationFacts(total) ==
  pc = "discount" =>
    /\ ScheduleSum = total
    /\ RLe(ScheduleSum, RInt(1))
    /\ \A ru \in runs, s \in Sims(cfg) :
         /\ \A i \in Cols(cfg) :
              Deducted(ru, s, i)
                = IF i < Len(cfg.depr_sch) THEN RMul(cfg.capex, cfg.depr_sch[i + 1]) ELSE RZero
         /\ TotalDeducted(ru, s) = RMul(cfg.capex, total)
         /\ RLe(TotalDeducted(ru, s), cfg.capex)

\* C7 (amended): the fractions of the literal schedule, as the decimal numbers
\* written, sum to 1.0000, which is at most 1.0, so the total depreciation
\* deducted over the T periods (CAPEX times the fraction for the periods of
\* the schedule, zero beyond it) is CAPEX and does not exceed it.
C7_Depreciation == DepreciationFacts(RInt(1))

\* The cash flows have been computed over a horizon longer than the schedule
\* and a row's deductions add up to CAPEX.
C7_Witness ==
  /\ pc = "discount"
  /\ cfg.depr_sch = DeprSch
  /\ cfg.T > Len(cfg.depr_sch)
  /\ TotalDeducted(1, 0) = cfg.capex
  /\ Deducted(1, 0, 0) = RMul(cfg.capex, <<1429, 10000>>)
  /\ Deducted(1, 0, cfg.T - 1) = RZero

\* C7 as stated: the same with the fractions summing to 0.9999.
C7_AsStated == DepreciationFacts(<<9999, 10000>>)

\* ---------------------------------------------------------- immutability
\* Array v is as it was, once assigned.
Kept(v, w) == \A ru \in runs : v[ru] # Unset => w[ru] = v[ru]

\* C8: in every step, a cell of price changes only in the price statement of
\* loop iteration t, and then it is a cell of column t >= 1 not assigned
\* before; likewise for opex and the opex statement; t never decreases, so no
\* cell is assigned twice; no step after the loop changes price or opex, and
\* no step changes a derived array or scalar that has been assigned.
C8_Immutable ==
  [][/\ \A ru \in runs, s \in Sims(cfg), col \in Cols(cfg) :
          /\ price'[ru][s][col] # price[ru][s][col] =>
               pc = "price" /\ col = t /\ col >= 1 /\ ~PriceAssigned(col)
          /\ opex'[ru][s][col] # opex[ru][s][col] =>
               pc = "opex" /\ col = t /\ col >= 1 /\ ~OpexAssigned(col)
     /\ t' >= t
     /\ ~InLoop => price' = price /\ opex' = opex
     /\ Kept(rev_gross, rev_gross') /\ Kept(roy, roy') /\ Kept(rev_net, rev_net')
     /\ Kept(btcf, btcf') /\ Kept(tax, tax') /\ Kept(atcf, atcf')
     /\ Kept(dis_fact, dis_fact') /\ Kept(npv, npv') /\ Kept(npv_cont, npv_cont')
     /\ Kept(X, X') /\ Kept(cv_pred, cv_pred') /\ Kept(max_val, max_val')
     /\ Kept(enpv_w_opt, enpv_w_opt') /\ Kept(enpv_wo_opt, enpv_wo_opt')
     /\ Kept(opt_val, opt_val')]_vars

\* A finished run: every column was assigned a value other than what the
\* memory held, and every derived array is set.
C8_Witness ==
  /\ pc = "done"
  /\ \A s \in Sims(cfg), col \in 1 .. cfg.T - 1 :
       price[1][s][col] # junk[1] /\ opex[1][s][col] # junk[1]
  /\ atcf[1] # Unset /\ X[1] # Unset /\ max_val[1] # Unset
====
